---------------------------- MODULE Spec2Model ----------------------------
(***************************************************************************)
(* Model of @storehouse/pg: PgPool / PgManager (src/unnamed/part_006, the  *)
(* 2.0.0 sources; src/src/index.ts is the same code under the PG names).   *)
(*                                                                         *)
(* PgPool extends the pg driver's Pool.  The wrapper keeps one listener on *)
(* a private EventEmitter ('releaseAll') per acquired client and removes   *)
(* it when the driver emits 'release' for that client.  The driver's Pool  *)
(* is modelled as far as the wrapper calls into it: connect, the release   *)
(* function the driver installs on the client at every acquire, end, and   *)
(* the queue pulse that hands idle clients to waiting connect calls.       *)
(*                                                                         *)
(* JavaScript scheduling: a call runs to completion (one action); the      *)
(* continuation of an await is a microtask, run in FIFO order; timers and  *)
(* socket events run only when no microtask is pending, and the            *)
(* continuations they queue run before any other call is made.             *)
(***************************************************************************)
EXTENDS Naturals, Integers, Sequences, FiniteSets, TLC

\* config.max of the pool (the repository's tests configure max: 2)
PoolMax == 2
\* number of connect() calls (user or healthCheck) in a behaviour
MaxReq == 3
\* number of closeConnection() calls in a behaviour
MaxClose == 2
\* largest reading of the clock (Date.now()) in a behaviour
MaxClock == 1
\* number of connect() calls made on the second manager, where two
\* managers are modelled (they count among the MaxReq calls)
MaxReqOther == 1

Conns == 1..PoolMax
Reqs == 1..MaxReq

VARIABLES
    req,            \* per connect() call: its caller's view and its lease
    nreq,           \* connect() calls issued so far
    cst,            \* per client object of the driver: absent/connecting/leased/idle
    leaseOf,        \* per client object: the connect() call it is handed to
    idle,           \* Pool._idle (array; pop takes the last)
    pendingQueue,   \* Pool._pendingQueue (FIFO)
    ticks,          \* process.nextTick(() => this._pulseQueue()) scheduled
    ending,         \* Pool.ending
    ended,          \* Pool.ended
    regs,           \* listeners of eventEmmiter for 'releaseAll', in order
    released,       \* per client object: the 'released' listeners the wrapper
                    \* has added to it
    microtasks,     \* pending await continuations, FIFO
    close,          \* closeConnection() calls: issued, awaiting end(), done, failed
    hc,             \* the healthCheck() call in progress, its connect() call
                    \* and its start instant
    now,            \* Date.now()
    defaultManager, \* registry.defaultManager
    other,          \* the pool of a second PgManager of the process, with its
                    \* own connect() calls, clients and registrations
    last            \* the last step: the API call made (or "event"), whether it
                    \* raised, the onReleaseAll listeners it invoked (in order),
                    \* the leases it ended through another call's handle, the
                    \* result of the healthCheck() call that returned in it,
                    \* the pool events the manager's observers logged, the
                    \* err argument of releaseAll / closeConnection,
                    \* whether healthCheck's probe query succeeded,
                    \* the errors delivered to callers of connect(), and the
                    \* manager the call was made on

vars == <<req, nreq, cst, leaseOf, idle, pendingQueue, ticks, ending, ended,
          regs, released, microtasks, close, hc, now, defaultManager, other,
          last>>

NoReq == [st |-> "none", style |-> "none", conn |-> 0, active |-> FALSE]

\* PgHealthCheckResult, as far as the checks read it; returned: a
\* healthCheck() call returned this record in the step
NoResult == [returned |-> FALSE, healthy |-> FALSE, ended |-> FALSE,
             error |-> "none", hasLatency |-> FALSE, latency |-> 0,
             timestamp |-> 0, totalCount |-> 0, idleCount |-> 0]
HcIdle == [st |-> "idle", r |-> 0, start |-> 0]

\* The current state as one value, for the operators below.
Cur == [req |-> req, nreq |-> nreq, cst |-> cst, leaseOf |-> leaseOf,
        idle |-> idle, pendingQueue |-> pendingQueue, ticks |-> ticks,
        ending |-> ending, ended |-> ended, regs |-> regs,
        released |-> released,
        microtasks |-> microtasks, close |-> close, hc |-> hc, now |-> now,
        thrown |-> FALSE, error |-> "none", invoked |-> <<>>, stolen |-> {},
        res |-> NoResult, log |-> <<>>, failures |-> <<>>]

\* A connect() call whose caller is finished with it (released its handle,
\* or got an error) and whose onReleaseAll listener is not registered is
\* referenced by nothing the pool or the wrapper reads again: only its
\* outcome is kept.  (Its 'released' listener stays on the client object,
\* where all it can do is remove a listener that is already removed.)
Forget(s) ==
    [r \in Reqs |->
        IF /\ s.req[r].st \in {"released", "failed"}
           /\ ~s.req[r].active
           /\ \A i \in 1..Len(s.regs) : s.regs[i] # r
        THEN [s.req[r] EXCEPT !.conn = 0, !.style = "none"]
        ELSE s.req[r]]

\* The pool of a manager on which nothing has been called yet.
FreshPool ==
    [req |-> [r \in Reqs |-> NoReq], nreq |-> 0,
     cst |-> [c \in Conns |-> "absent"], leaseOf |-> [c \in Conns |-> 0],
     idle |-> <<>>, pendingQueue |-> <<>>, ticks |-> 0,
     ending |-> FALSE, ended |-> FALSE, regs |-> <<>>,
     released |-> [c \in Conns |-> 0],
     microtasks |-> <<>>,
     close |-> [calls |-> 0, awaiting |-> 0, done |-> 0, failed |-> 0, ends |-> 0],
     hc |-> HcIdle, now |-> 0,
     thrown |-> FALSE, error |-> "none", invoked |-> <<>>, stolen |-> {},
     res |-> NoResult, log |-> <<>>, failures |-> <<>>]

\* The state a step leaves of the second manager's pool: what the step
\* reported (raised, invoked, logged) is not part of it.
Settle(s) ==
    [s EXCEPT !.req = Forget(s), !.thrown = FALSE, !.error = "none",
              !.invoked = <<>>, !.stolen = {}, !.res = NoResult,
              !.log = <<>>, !.failures = <<>>]

CommitPool(s) ==
    /\ req' = Forget(s)
    /\ nreq' = s.nreq
    /\ cst' = s.cst
    /\ leaseOf' = s.leaseOf
    /\ idle' = s.idle
    /\ pendingQueue' = s.pendingQueue
    /\ ticks' = s.ticks
    /\ ending' = s.ending
    /\ ended' = s.ended
    /\ regs' = s.regs
    /\ released' = s.released
    /\ microtasks' = s.microtasks
    /\ close' = s.close
    /\ hc' = s.hc
    /\ now' = s.now
    /\ defaultManager' = defaultManager

\* A step on the first manager: the second manager's pool is a different
\* object and is not touched.
Commit(s) == CommitPool(s) /\ other' = other

-----------------------------------------------------------------------------
(* Pool counters *)

Clients(s) == {c \in Conns : s.cst[c] # "absent"}
totalCount(s) == Cardinality(Clients(s))
idleCount(s) == Len(s.idle)
waitingCount(s) == Len(s.pendingQueue)
IsFull(s) == totalCount(s) >= PoolMax

\* A faulty variant of EndedResult: the result says healthy.
EndedResultHealthy(start) ==
    [NoResult EXCEPT !.returned = TRUE, !.healthy = TRUE, !.ended = TRUE,
                     !.timestamp = start]

\* healthCheck's result on an ended pool (lines 469-479): no counters, no
\* latency
EndedResult(start) ==
    [NoResult EXCEPT !.returned = TRUE, !.ended = TRUE, !.timestamp = start]

\* A faulty variant of HealthyResult: the latency is start minus end.
HealthyResultNegated(s) ==
    [NoResult EXCEPT !.returned = TRUE, !.healthy = TRUE, !.hasLatency = TRUE,
                     !.latency = s.hc.start - s.now, !.timestamp = s.hc.start,
                     !.totalCount = totalCount(s), !.idleCount = idleCount(s)]

\* healthCheck's healthy result (lines 489-503), built in state s
HealthyResult(s) ==
    [NoResult EXCEPT !.returned = TRUE, !.healthy = TRUE, !.hasLatency = TRUE,
                     !.latency = s.now - s.hc.start, !.timestamp = s.hc.start,
                     !.totalCount = totalCount(s), !.idleCount = idleCount(s)]

\* A faulty variant of UnhealthyResult: details.error is left out.
UnhealthyResultNoError(s) ==
    [NoResult EXCEPT !.returned = TRUE, !.hasLatency = TRUE,
                     !.latency = s.now - s.hc.start, !.timestamp = s.hc.start,
                     !.totalCount = totalCount(s), !.idleCount = idleCount(s)]

\* A faulty variant of UnhealthyResult: the result says the pool has ended.
UnhealthyResultEnded(s) ==
    [NoResult EXCEPT !.returned = TRUE, !.ended = TRUE, !.timestamp = s.hc.start]

\* healthCheck's result in its outer catch (lines 509-521), built in state s
UnhealthyResult(s) ==
    [NoResult EXCEPT !.returned = TRUE, !.error = s.error, !.hasLatency = TRUE,
                     !.latency = s.now - s.hc.start, !.timestamp = s.hc.start,
                     !.totalCount = totalCount(s), !.idleCount = idleCount(s)]

\* A faulty variant of HealthCatch: the error is not caught.
HealthRethrow(s) == [s EXCEPT !.hc = HcIdle]

\* healthCheck's outer catch (lines 508-522): whatever was thrown inside the
\* try becomes an unhealthy result
HealthCatch(s) ==
    [s EXCEPT !.thrown = FALSE, !.res = UnhealthyResult(s), !.hc = HcIdle]

SeqWithout(q, x) == SelectSeq(q, LAMBDA y : y # x)

\* the pool events the manager observes
PoolEvents == {"acquire", "connect", "error", "release", "remove"}

\* A faulty variant of Observe: the observer of 'release' raises.
ObserveRaises(s, event) ==
    [s EXCEPT !.log = Append(@, event),
              !.thrown = IF event = "release" THEN TRUE ELSE @]

\* The observer that registerConnectionEvents attaches for a pool event
\* (lines 367-383): one call of Log.log / Log.error, nothing else.
Observe(s, event) == [s EXCEPT !.log = Append(@, event)]


-----------------------------------------------------------------------------
(* The driver's Pool, as the wrapper drives it (pg Pool: connect, the      *)
(* client's release function, end, _pulseQueue).                           *)

RECURSIVE PulseQueue(_), AcquireClient(_, _, _), DriverRelease(_, _, _, _)

\* A faulty variant of DeliverError: the callback path wraps the error.
DeliverErrorWrapped(style, e) == IF style = "callback" THEN "wrapped" ELSE e

\* The error of super.connect as the wrapper hands it to the caller:
\* callback(err, client, done) on the callback path (line 140), the
\* rejection of the awaited promise on the promise path (line 70).
DeliverError(style, e) == e

\* A connect() call fails with the driver's error e: its caller gets the
\* error (promise rejected or callback(err)), once; healthCheck's catch
\* turns it into an unhealthy result.
FailRequest(s, r, e) ==
    LET s1 == [s EXCEPT !.req[r].st = "failed",
                        !.failures = Append(@, [r |-> r, raised |-> e,
                                                got |-> DeliverError(s.req[r].style, e)])]
    IN IF s.req[r].style = "health"
       THEN HealthCatch([s1 EXCEPT !.thrown = TRUE, !.error = "acquire"])
       ELSE s1

\* Pool._remove(client): the client object leaves _clients and _idle for
\* good; handles that still point to it point to a dead object (conn 0).
\* The pool emits 'remove'.
Remove(s, c) ==
    Observe([s EXCEPT !.idle = SeqWithout(s.idle, c),
                      !.cst[c] = "absent",
                      !.leaseOf[c] = 0,
                      !.released[c] = 0,
                      !.req = [r \in Reqs |->
                                  IF s.req[r].conn = c
                                  THEN [s.req[r] EXCEPT !.conn = 0]
                                  ELSE s.req[r]]],
            "remove")

\* The 'released' listeners the wrapper has added to client object c: one
\* per connect() call that was handed c and registered on it.
Listeners(s, c) ==
    {x \in Reqs : s.req[x].conn = c /\ s.req[x].st \in {"held", "released"}}

\* A faulty variant of OnReleased: the 'released' listener leaves the
\* onReleaseAll listener registered.
OnReleasedKeepsListener(s, c) == s

\* this.on('release', (err, client) => client.emit('released', err)) and the
\* 'released' listeners: each does eventEmmiter.off('releaseAll', onReleaseAll).
OnReleased(s, c) ==
    [s EXCEPT !.regs = SelectSeq(s.regs, LAMBDA x : x \notin Listeners(s, c))]

\* Pool.newClient(pendingItem): a new client object starts connecting.
NewClient(s, r, viaQueue) ==
    LET c == CHOOSE x \in Conns : s.cst[x] = "absent" /\
                                  \A y \in Conns : s.cst[y] = "absent" => x <= y
    IN [s EXCEPT !.cst[c] = "connecting",
                 !.leaseOf[c] = r,
                 !.req[r].st = IF viaQueue THEN "connectingQ" ELSE "connecting"]

\* client.addListener('released', ...) on client object c (lines 76-78,
\* 136-138); c = 0: the object has left the pool and nothing reads it again
AddReleasedListener(s, c) ==
    IF c = 0 THEN s ELSE [s EXCEPT !.released[c] = @ + 1]

\* The callback the wrapper passes to super.connect, on a client:
\* callback style registers at once (connect, lines 130-141); promise style
\* resolves the awaited promise, and connectPromise resumes as a microtask.
ConnectCallback(s, r) ==
    IF s.req[r].style = "callback"
    THEN AddReleasedListener([s EXCEPT !.regs = Append(s.regs, r),
                                       !.req[r].st = "held"],
                             s.req[r].conn)
    ELSE [s EXCEPT !.req[r].st = "served",
                   !.microtasks = Append(s.microtasks,
                                         [k |-> "register", r |-> r])]

\* Pool._acquireClient: emits 'connect' for a new client and 'acquire',
\* installs a fresh release function on the client object (client.release =
\* this._releaseOnce(...)) and hands it to the pending item; an item that
\* timed out meanwhile gets the client released.
AcquireClient(s, c, r) ==
    LET s0 == Observe(IF s.cst[c] = "connecting" THEN Observe(s, "connect")
                      ELSE s,
                      "acquire")
        s1 == [s0 EXCEPT !.cst[c] = "leased",
                         !.leaseOf[c] = r,
                         !.req[r].conn = c,
                         !.req[r].active = TRUE]
    IN IF s.req[r].st = "timedout"
       THEN DriverRelease([s1 EXCEPT !.req[r].st = "failed"], c, FALSE, r)
       ELSE ConnectCallback(s1, r)

\* Pool._pulseQueue
PulseQueue(s) ==
    IF s.ended THEN s
    ELSE IF s.ending THEN
        LET RECURSIVE RemoveIdle(_)
            RemoveIdle(t) == IF t.idle = <<>> THEN t
                             ELSE RemoveIdle(Remove(t, Head(t.idle)))
            s1 == RemoveIdle(s)
        IN IF Clients(s1) = {}
           THEN [s1 EXCEPT !.ended = TRUE,
                           !.close.done = @ + s1.close.awaiting,
                           !.close.awaiting = 0]
           ELSE s1
    ELSE IF s.pendingQueue = <<>> THEN s
    ELSE IF s.idle = <<>> /\ IsFull(s) THEN s
    ELSE
        LET r == Head(s.pendingQueue)
            s1 == [s EXCEPT !.pendingQueue = Tail(s.pendingQueue)]
        IN IF s.idle # <<>>
           THEN LET c == s.idle[Len(s.idle)]
                IN AcquireClient([s1 EXCEPT !.idle = SubSeq(s.idle, 1, Len(s.idle) - 1)],
                                 c, r)
           ELSE NewClient(s1, r, TRUE)

\* The release function of client object c is called with err, its lease
\* being live (Pool._release): 'release' is emitted first (the wrapper's
\* listener runs before the manager's observer), then the client
\* is removed (err, or pool ending) or pushed to _idle, then the queue is
\* pulsed.  who is the connect() call on whose behalf the call is made.
DriverRelease(s, c, err, who) ==
    LET r0 == s.leaseOf[c]
        s1 == [s EXCEPT !.req[r0].active = FALSE,
                        !.stolen = IF who = r0 THEN @ ELSE @ \cup {r0}]
        s2 == Observe(OnReleased(s1, c), "release")
    IN IF err \/ s.ending
       THEN PulseQueue(Remove(s2, c))
       ELSE PulseQueue([s2 EXCEPT !.idle = Append(s2.idle, c),
                                  !.cst[c] = "idle",
                                  !.leaseOf[c] = 0])

\* client.release(err) through a handle to client object c (0: the object
\* was removed from the pool).  The function called is the one installed
\* at the object's latest acquire; it throws when that lease was released.
ClientRelease(s, c, err, who) ==
    IF c = 0 \/ s.cst[c] # "leased"
    THEN [s EXCEPT !.thrown = TRUE]
    ELSE DriverRelease(s, c, err, who)

\* Pool.connect(cb)
PoolConnect(s, r) ==
    IF s.ending THEN FailRequest(s, r, "ending")
    ELSE IF IsFull(s) \/ s.idle # <<>>
    THEN [s EXCEPT !.ticks = IF s.idle # <<>> THEN @ + 1 ELSE @,
                   !.pendingQueue = Append(s.pendingQueue, r),
                   !.req[r].st = "waiting"]
    ELSE NewClient(s, r, FALSE)

\* Pool.end(): rejects when called on a pool that is already ending.
PoolEnd(s) ==
    IF s.ending THEN [s EXCEPT !.thrown = TRUE]
    ELSE PulseQueue([s EXCEPT !.ending = TRUE, !.close.awaiting = 1])
-----------------------------------------------------------------------------
(* PgPool: the wrapper *)

\* A faulty variant of OnReleaseAll: err is not passed on to release.
OnReleaseAllDropsErr(s, x, err) ==
    ClientRelease([s EXCEPT !.invoked = Append(@, x)],
                  s.req[x].conn, FALSE, x)

\* onReleaseAll of connect() call x: client.release(err) on the client
\* object x was handed (lines 72-74, 132-134).
OnReleaseAll(s, x, err) ==
    ClientRelease([s EXCEPT !.invoked = Append(@, x)],
                  s.req[x].conn, err, x)

\* eventEmmiter.emit('releaseAll', err): the listeners registered when emit
\* starts are called in order; a listener that throws ends the emit.
RECURSIVE EmitReleaseAll(_, _, _)
EmitReleaseAll(s, snapshot, err) ==
    IF snapshot = <<>> THEN s
    ELSE LET s1 == OnReleaseAll(s, Head(snapshot), err)
         IN IF s1.thrown THEN s1
            ELSE EmitReleaseAll(s1, Tail(snapshot), err)

\* A faulty variant of releaseAll: only the first registered listener is
\* called.
releaseAllFirstOnly(s, err) ==
    EmitReleaseAll(s, IF s.regs = <<>> THEN <<>> ELSE <<Head(s.regs)>>, err)

\* A faulty variant of releaseAll: an emit nobody listens to raises, as the
\* emitter does for the event named 'error'.
releaseAllUnhandled(s, err) ==
    IF s.regs = <<>> THEN [s EXCEPT !.thrown = TRUE]
    ELSE EmitReleaseAll(s, s.regs, err)

\* A faulty variant of releaseAll: the listeners are called last to first.
releaseAllReversed(s, err) ==
    EmitReleaseAll(s, [i \in 1..Len(s.regs) |-> s.regs[Len(s.regs) + 1 - i]],
                   err)

\* A faulty variant of releaseAll: the listener registered last is left out.
releaseAllButLast(s, err) ==
    EmitReleaseAll(s, SubSeq(s.regs, 1, Len(s.regs) - 1), err)

\* PgPool.releaseAll(err)
releaseAll(s, err) == EmitReleaseAll(s, s.regs, err)

\* A faulty variant of isConnected: only the ended flag is looked at.
isConnectedWhenNotEnded(s) == ~s.ended

\* A faulty variant of isConnected: only idle clients are counted.
isConnectedIdleOnly(s) == ~s.ended /\ idleCount(s) > 0

\* PgManager.isConnected(): !this.ended && this.totalCount > 0
isConnected(s) == ~s.ended /\ totalCount(s) > 0

\* PgPool.connect(callback?) of connect() call r (lines 126-146): with a
\* callback, super.connect with the registering callback; without one,
\* connectPromise, which starts with `await super.connect()`
connect(s, r, style) ==
    PoolConnect([s EXCEPT !.nreq = r, !.req[r].style = style], r)

\* A faulty variant of PgManager.getConnection: the callback path is taken.
getConnectionCallbackPath(s, r) == connect(s, r, "callback")

\* PgManager.getConnection(): return this.connect()
getConnection(s, r) == connect(s, r, "promise")

\* connectPromise after `await super.connect()`: registers onReleaseAll and
\* the 'released' listener, then returns the client to the caller.
ConnectPromiseResume(s, r) ==
    LET s1 == AddReleasedListener([s EXCEPT !.regs = Append(s.regs, r),
                                            !.req[r].st = "held"],
                                  s.req[r].conn)
    IN IF s.req[r].style = "health"
       THEN [s1 EXCEPT !.hc.st = "probing"]
       ELSE s1

\* closeConnection after `await this.releaseAll(err)`:
\* if (!this.ended) await this.end()
CloseResume(s) ==
    IF s.ended THEN [s EXCEPT !.close.done = @ + 1]
    ELSE LET s1 == PoolEnd([s EXCEPT !.close.ends = @ + 1])
         IN IF s1.thrown
            THEN [s1 EXCEPT !.close.failed = @ + 1, !.thrown = FALSE]
            ELSE s1

-----------------------------------------------------------------------------
(* Actions *)

\* what `last` records of a step
\* a lookup helper's call: the name it was asked for, the error it raised,
\* the name the error is about, the value it returned
NoLookup == [asked |-> "none", error |-> "none", about |-> "none",
             value |-> "none"]

Last(op, s) == [op |-> op, threw |-> s.thrown, invoked |-> s.invoked,
                stolen |-> s.stolen, res |-> s.res, connected |-> FALSE,
                lookup |-> NoLookup, log |-> s.log, err |-> FALSE,
                probeOk |-> FALSE, failures |-> s.failures, mgr |-> 1]
Event == [op |-> "event", threw |-> FALSE, invoked |-> <<>>, stolen |-> {},
          res |-> NoResult, connected |-> FALSE, lookup |-> NoLookup,
          log |-> <<>>, err |-> FALSE, probeOk |-> FALSE, failures |-> <<>>,
          mgr |-> 1]

\* The registry of the lookup helpers: "pg2" is a PgManager (the pool of this
\* model), "other" a manager of another type, "nope" is not registered.
Names == {"pg2", "other", "nope"}
RegistryGetManager(name, dflt) ==
    LET n == IF name = "omitted" THEN dflt ELSE name
    IN CASE n = "pg2" -> "PgManager"
         [] n = "other" -> "OtherManager"
         [] OTHER -> "absent"

\* A faulty variant of getManager: the type of the manager is not tested.
getManagerUntyped(name, dflt) ==
    LET manager == RegistryGetManager(name, dflt)
    IN IF manager = "absent"
       THEN [NoLookup EXCEPT !.error = "ManagerNotFound",
                             !.about = IF name = "omitted" THEN dflt ELSE name]
       ELSE [NoLookup EXCEPT !.value = manager]

\* getManager(registry, managerName)
getManager(name, dflt) ==
    LET manager == RegistryGetManager(name, dflt)
    IN IF manager = "absent"
       THEN [NoLookup EXCEPT !.error = "ManagerNotFound",
                             !.about = IF name = "omitted" THEN dflt ELSE name]
       ELSE IF manager # "PgManager"
       THEN [NoLookup EXCEPT !.error = "InvalidManagerConfig",
                             !.about = IF name = "omitted" THEN dflt ELSE name]
       ELSE [NoLookup EXCEPT !.value = manager]

\* getConnection(registry, managerName) when the registry resolves no
\* PgManager: conn is what `await registry.getConnection(managerName)` gave
\* ("absent" or the connection of the other manager)
getConnectionOutcome(name, dflt, conn) ==
    IF conn = "absent"
    THEN [NoLookup EXCEPT !.error = "ManagerNotFound",
                          !.about = IF name = "omitted" THEN dflt ELSE name]
    ELSE [NoLookup EXCEPT !.value = conn]

InitPool ==
    /\ req = [r \in Reqs |-> NoReq]
    /\ nreq = 0
    /\ cst = [c \in Conns |-> "absent"]
    /\ leaseOf = [c \in Conns |-> 0]
    /\ idle = <<>>
    /\ pendingQueue = <<>>
    /\ ticks = 0
    /\ ending = FALSE
    /\ ended = FALSE
    /\ regs = <<>>
    /\ released = [c \in Conns |-> 0]
    /\ microtasks = <<>>
    /\ close = [calls |-> 0, awaiting |-> 0, done |-> 0, failed |-> 0, ends |-> 0]
    /\ hc = HcIdle
    /\ now = 0
    /\ other = FreshPool
    /\ last = Event

\* the registry of the repository's tests: the PgManager is the default
Init == InitPool /\ defaultManager = "pg2"

\* pool.connect() / pool.connect(callback)
Connect(style) ==
    /\ nreq < MaxReq
    /\ LET s1 == connect(Cur, nreq + 1, style)
       IN /\ Commit(s1)
          /\ last' = Last("connect", s1)

\* manager.getConnection()
ManagerGetConnection ==
    /\ nreq < MaxReq
    /\ LET s1 == getConnection(Cur, nreq + 1)
       IN /\ Commit(s1)
          /\ last' = Last("manager.getConnection", s1)

\* the holder of connect() call r calls client.release(err)
Release(r, err) ==
    /\ req[r].st = "held"
    /\ req[r].style # "health"
    /\ LET s1 == ClientRelease([Cur EXCEPT !.req[r].st = "released"],
                               req[r].conn, err, r)
       IN /\ Commit(s1)
          /\ last' = Last("release", s1)

\* await pool.releaseAll(err): the call itself (the emit is synchronous)
ReleaseAll(err) ==
    LET s1 == releaseAll(Cur, err)
    IN /\ Commit(s1)
       /\ last' = [Last("releaseAll", s1) EXCEPT !.err = err]

\* PgManager.closeConnection(err) up to `await this.releaseAll(err)`: the
\* call rejects when the broadcast raises, and otherwise goes on after the
\* await.
closeConnection(s, err) ==
    LET s1 == releaseAll([s EXCEPT !.close.calls = @ + 1], err)
    IN IF s1.thrown
       THEN [s1 EXCEPT !.close.failed = @ + 1]
       ELSE [s1 EXCEPT !.microtasks = Append(@, [k |-> "closeEnd", r |-> 0])]

\* manager.closeConnection(err), up to its first await
CloseConnection(err) ==
    /\ close.calls < MaxClose
    /\ LET s1 == closeConnection(Cur, err)
       IN /\ Commit(s1)
          /\ last' = [Last("closeConnection", s1) EXCEPT !.err = err]

\* The first pending await continuation runs: connectPromise after line 70
\* or closeConnection after line 422.
ResumeNext(s) ==
    LET m == Head(s.microtasks)
        s0 == [s EXCEPT !.microtasks = Tail(s.microtasks)]
    IN IF m.k = "register" THEN ConnectPromiseResume(s0, m.r)
       ELSE CloseResume(s0)

\* The await continuations pending when a timer or socket callback returns
\* run before any other code does: such a callback starts with no
\* continuation pending, so those it queued are alone in the queue.
RECURSIVE DrainMicrotasks(_)
DrainMicrotasks(s) ==
    IF s.microtasks = <<>> THEN s ELSE DrainMicrotasks(ResumeNext(s))

\* the next await continuation runs
RunMicrotask ==
    /\ microtasks # <<>>
    /\ LET s1 == ResumeNext(Cur)
       IN /\ Commit(s1)
          /\ last' = [Event EXCEPT !.log = s1.log]

\* process.nextTick(() => this._pulseQueue()) scheduled by Pool.connect
TickPulse ==
    /\ ticks > 0
    /\ LET s1 == PulseQueue([Cur EXCEPT !.ticks = @ - 1])
       IN /\ Commit(s1)
          /\ last' = [Event EXCEPT !.log = s1.log]

\* Pool.newClient's callback of client.connect for client object c: the
\* client is handed to the connect() call it was opened for, or dropped
\* when the connection failed (the queue is pulsed and the call fails,
\* unless its timeout has failed it already).
ClientConnectCallback(s, c, ok) ==
    LET r == s.leaseOf[c]
    IN IF ok THEN AcquireClient(s, c, r)
       ELSE LET t1 == PulseQueue([s EXCEPT !.cst[c] = "absent",
                                           !.leaseOf[c] = 0])
            IN IF s.req[r].st = "timedout"
               THEN [t1 EXCEPT !.req[r].st = "failed"]
               ELSE FailRequest(t1, r, "connect")

\* the socket connect of a new client object completes (ok) or fails; a
\* connectPromise that was awaiting the client resumes right after
ConnectDone(c, ok) ==
    /\ microtasks = <<>>
    /\ cst[c] = "connecting"
    /\ LET s1 == DrainMicrotasks(ClientConnectCallback(Cur, c, ok))
       IN /\ Commit(s1)
          /\ last' = Last("event", s1)

\* A faulty variant of Timeout: no connectionTimeoutMillis, the timer of a
\* queued connect() call never fires.
TimeoutNever(r) == FALSE

\* connectionTimeoutMillis elapses for a queued connect() call
Timeout(r) ==
    /\ microtasks = <<>>
    /\ req[r].st \in {"waiting", "connectingQ"}
    /\ LET s1 == FailRequest([Cur EXCEPT !.pendingQueue = SeqWithout(@, r)], r,
                             "timeout")
           s2 == IF req[r].st = "connectingQ"
                 THEN [s1 EXCEPT !.req[r].st = "timedout"]
                 ELSE s1
       IN /\ Commit(s2)
          /\ last' = Last("event", s2)

\* idleTimeoutMillis elapses for an idle client
IdleTimeout(c) ==
    /\ microtasks = <<>>
    /\ cst[c] = "idle"
    /\ LET s1 == Remove(Cur, c)
       IN /\ Commit(s1)
          /\ last' = [Event EXCEPT !.log = s1.log]

\* an idle client's connection breaks: the pool's idle listener removes the
\* client and emits 'error' on the pool
IdleError(c) ==
    /\ microtasks = <<>>
    /\ cst[c] = "idle"
    /\ LET s1 == Observe(Remove(Cur, c), "error")
       IN /\ Commit(s1)
          /\ last' = [Event EXCEPT !.log = s1.log]

\* getManager(registry, name)
GetManager(name) ==
    /\ LET l == getManager(name, defaultManager)
       IN last' = [Event EXCEPT !.op = "getManager", !.threw = (l.error # "none"),
                                !.lookup = [l EXCEPT !.asked = name]]
    /\ UNCHANGED <<req, nreq, cst, leaseOf, idle, pendingQueue, ticks,
                   ending, ended, regs, released, microtasks, close, hc, now,
                   defaultManager, other>>

\* getConnection(registry, name): the registry calls getConnection() of the
\* manager it resolves; for the PgManager that is this.connect(), for
\* another manager it gives that manager's connection (or nothing)
GetConnection(name, foreign) ==
    IF RegistryGetManager(name, defaultManager) = "PgManager"
    THEN /\ nreq < MaxReq
         /\ LET r == nreq + 1
                s0 == [Cur EXCEPT !.nreq = r, !.req[r].style = "promise"]
                s1 == PoolConnect(s0, r)
            IN /\ Commit(s1)
               /\ last' = [Last("getConnection", s1) EXCEPT
                              !.lookup.asked = name,
                              !.lookup.value = "pending"]
    ELSE /\ LET conn == IF RegistryGetManager(name, defaultManager) = "absent"
                        THEN "absent" ELSE foreign
                l == getConnectionOutcome(name, defaultManager, conn)
            IN last' = [Event EXCEPT !.op = "getConnection",
                                     !.threw = (l.error # "none"),
                                     !.lookup = [l EXCEPT !.asked = name]]
         /\ UNCHANGED <<req, nreq, cst, leaseOf, idle, pendingQueue, ticks,
                        ending, ended, regs, released, microtasks, close, hc, now,
                        defaultManager, other>>

\* await manager.isConnected()
IsConnected ==
    /\ last' = [Event EXCEPT !.op = "isConnected", !.connected = isConnected(Cur)]
    /\ UNCHANGED <<req, nreq, cst, leaseOf, idle, pendingQueue, ticks,
                   ending, ended, regs, released, microtasks, close, hc, now,
                   defaultManager, other>>

\* manager.healthCheck(), up to `await this.connect()`
HealthCheck ==
    /\ hc.st = "idle"
    /\ IF ended
       THEN /\ last' = [Event EXCEPT !.op = "healthCheck",
                                     !.res = EndedResult(now)]
            /\ UNCHANGED <<req, nreq, cst, leaseOf, idle, pendingQueue, ticks,
                           ending, ended, regs, released, microtasks, close, hc, now,
                   defaultManager, other>>
       ELSE /\ nreq < MaxReq
            /\ LET r == nreq + 1
                   s0 == [Cur EXCEPT !.nreq = r, !.req[r].style = "health",
                                     !.hc = [st |-> "acquiring", r |-> r,
                                             start |-> now]]
                   s1 == PoolConnect(s0, r)
               IN /\ Commit(s1)
                  /\ last' = Last("healthCheck", s1)

\* healthCheck from the probe's outcome to the end of its inner try/catch
\* (lines 485-507): release() and the healthy result after a query that
\* succeeded; release(true) and a rethrow in the inner catch.  The error
\* that leaves the inner catch is the one release raised, when it raised.
ProbeRelease(s, ok) ==
    LET r == s.hc.r
        s0 == [s EXCEPT !.req[r].st = "released"]
        s1 == ClientRelease(s0, s0.req[r].conn, ~ok, r)
    IN IF ok /\ ~s1.thrown
       THEN [s1 EXCEPT !.res = HealthyResult(s1), !.hc = HcIdle]
       ELSE IF ok
       THEN [ClientRelease(s1, s1.req[r].conn, TRUE, r)
                EXCEPT !.thrown = TRUE, !.error = "release"]
       ELSE IF s1.thrown
       THEN [s1 EXCEPT !.error = "release"]
       ELSE [s1 EXCEPT !.thrown = TRUE, !.error = "query"]

\* healthCheck's probe query settles (ok or not); healthCheck releases the
\* client and returns its result (lines 486-522); a connectPromise that
\* its release served resumes right after
ProbeDone(ok) ==
    /\ microtasks = <<>>
    /\ hc.st = "probing"
    /\ LET s1 == ProbeRelease(Cur, ok)
           s2 == DrainMicrotasks(IF s1.thrown THEN HealthCatch(s1) ELSE s1)
       IN /\ Commit(s2)
          /\ last' = [Last("event", s2) EXCEPT !.probeOk = ok]

\* time passes.  Only healthCheck reads the clock, so the clock advances
\* only while a healthCheck() call is running.
Tick ==
    /\ now < MaxClock
    /\ hc.st # "idle"
    /\ now' = now + 1
    /\ last' = Event
    /\ UNCHANGED <<req, nreq, cst, leaseOf, idle, pendingQueue, ticks,
                   ending, ended, regs, released, microtasks, close, hc, defaultManager, other>>

Next ==
    \/ \E style \in {"promise", "callback"} : Connect(style)
    \/ \E r \in Reqs, err \in BOOLEAN : Release(r, err)
    \/ \E err \in BOOLEAN : ReleaseAll(err)
    \/ \E err \in BOOLEAN : CloseConnection(err)
    \/ RunMicrotask
    \/ TickPulse
    \/ \E c \in Conns, ok \in BOOLEAN : ConnectDone(c, ok)
    \/ \E r \in Reqs : Timeout(r)
    \/ \E c \in Conns : IdleTimeout(c)
    \/ \E c \in Conns : IdleError(c)
    \/ ManagerGetConnection
    \/ IsConnected
    \/ HealthCheck
    \/ \E ok \in BOOLEAN : ProbeDone(ok)
    \/ Tick

Spec == Init /\ [][Next]_vars

\* A step of the event loop or of the driver: an await continuation or a
\* nextTick callback runs, a connection attempt ends (established, refused,
\* or cut by connectionTimeoutMillis), the timer of a queued connect() call
\* fires.
LoopStep ==
    \/ RunMicrotask
    \/ TickPulse
    \/ \E c \in Conns, ok \in BOOLEAN : ConnectDone(c, ok)
    \/ \E r \in Reqs : Timeout(r)

\* What the event loop guarantees: while something is pending, one of the
\* pending things happens.  Nothing is assumed of the callers: a holder
\* may never release.
Fairness == WF_vars(LoopStep)

\* The acquire path on its own: connect() calls, holders that release or
\* do not, and the driver's events.
AcquireNext ==
    \/ \E style \in {"promise", "callback"} : Connect(style)
    \/ \E r \in Reqs, err \in BOOLEAN : Release(r, err)
    \/ RunMicrotask
    \/ TickPulse
    \/ \E c \in Conns, ok \in BOOLEAN : ConnectDone(c, ok)
    \/ \E r \in Reqs : Timeout(r)
    \/ \E c \in Conns : IdleTimeout(c)

LiveSpec == Init /\ [][AcquireNext]_vars /\ Fairness

\* The lookup helpers over every choice of the registry's default manager,
\* with the pool operations a connection got through them meets.
LookupInit == InitPool /\ defaultManager \in Names

LookupNext ==
    \/ \E name \in Names \cup {"omitted"} : GetManager(name)
    \/ \E name \in Names \cup {"omitted"}, foreign \in {"absent", "connection"} :
          GetConnection(name, foreign)
    \/ \E r \in Reqs, err \in BOOLEAN : Release(r, err)
    \/ \E err \in BOOLEAN : ReleaseAll(err)
    \/ RunMicrotask
    \/ TickPulse
    \/ \E c \in Conns, ok \in BOOLEAN : ConnectDone(c, ok)

LookupSpec == LookupInit /\ [][LookupNext]_vars

-----------------------------------------------------------------------------
(* Two managers in one process.  Manager 1 is the pool of the variables     *)
(* above, manager 2 the pool held in `other`; each is a PgManager of its    *)
(* own, constructed from the same class.                                    *)

Managers == {1, 2}
Pools == <<Cur, other>>

\* A faulty variant of EmitterOf: one emitter shared by all instances (a
\* static field).
EmitterShared(m) == 1

\* The EventEmitter on which manager m registers and broadcasts 'releaseAll':
\* `private eventEmmiter: EventEmitter = new EventEmitter()` (line 44) is an
\* instance field, a new emitter for every PgPool constructed.
EmitterOf(m) == m

\* eventEmmiter.emit('releaseAll', err) by manager m, seen from manager k:
\* k's onReleaseAll listeners run when they are on the emitter m emits on.
EmitReaches(m, k) == EmitterOf(k) = EmitterOf(m)

Commit2(p) == CommitPool(p[1]) /\ other' = Settle(p[2])

\* pool.connect() / pool.connect(callback) on manager m
ConnectOn(m, style) ==
    /\ nreq + other.nreq < MaxReq
    /\ m = 2 => other.nreq < MaxReqOther
    /\ LET p == [Pools EXCEPT ![m] = connect(@, @.nreq + 1, style)]
       IN /\ Commit2(p)
          /\ last' = [Last("connect", p[m]) EXCEPT !.mgr = m]

\* the holder of connect() call r of manager m calls client.release(err)
ReleaseOn(m, r, err) ==
    /\ Pools[m].req[r].st = "held"
    /\ LET p == [Pools EXCEPT
                    ![m] = ClientRelease([@ EXCEPT !.req[r].st = "released"],
                                         @.req[r].conn, err, r)]
       IN /\ Commit2(p)
          /\ last' = [Last("release", p[m]) EXCEPT !.mgr = m]

\* await pool.releaseAll(err) on manager m
ReleaseAllOn(m, err) ==
    LET p == [k \in Managers |->
                 IF EmitReaches(m, k) THEN releaseAll(Pools[k], err)
                 ELSE Pools[k]]
    IN /\ Commit2(p)
       /\ last' = [Last("releaseAll", p[m]) EXCEPT !.err = err, !.mgr = m]

\* manager.closeConnection(err) on manager m, up to its first await
CloseConnectionOn(m, err) ==
    /\ close.calls + other.close.calls < MaxClose
    /\ LET p == [k \in Managers |->
                    IF k = m THEN closeConnection(Pools[k], err)
                    ELSE IF EmitReaches(m, k) THEN releaseAll(Pools[k], err)
                    ELSE Pools[k]]
       IN /\ Commit2(p)
          /\ last' = [Last("closeConnection", p[m]) EXCEPT !.err = err,
                                                           !.mgr = m]

\* the next await continuation of manager m runs; for closeConnection that
\* is `if (!this.ended) await this.end()`
RunMicrotaskOn(m) ==
    /\ Pools[m].microtasks # <<>>
    /\ LET p == [Pools EXCEPT ![m] = ResumeNext(@)]
       IN /\ Commit2(p)
          /\ last' = [Event EXCEPT
                         !.op = IF Head(Pools[m].microtasks).k = "closeEnd"
                                THEN "closeConnection.end" ELSE "event",
                         !.log = p[m].log, !.mgr = m]

\* the queue pulse manager m's pool scheduled with process.nextTick
TickPulseOn(m) ==
    /\ Pools[m].ticks > 0
    /\ LET p == [Pools EXCEPT ![m] = PulseQueue([@ EXCEPT !.ticks = @ - 1])]
       IN /\ Commit2(p)
          /\ last' = [Event EXCEPT !.log = p[m].log, !.mgr = m]

\* the socket connect of a new client object of manager m completes
ConnectDoneOn(m, c, ok) ==
    /\ microtasks = <<>> /\ other.microtasks = <<>>
    /\ Pools[m].cst[c] = "connecting"
    /\ LET p == [Pools EXCEPT
                    ![m] = DrainMicrotasks(ClientConnectCallback(@, c, ok))]
       IN /\ Commit2(p)
          /\ last' = [Last("event", p[m]) EXCEPT !.mgr = m]

TwoNext ==
    \E m \in Managers :
        \/ \E style \in {"promise", "callback"} : ConnectOn(m, style)
        \/ \E r \in Reqs, err \in BOOLEAN : ReleaseOn(m, r, err)
        \/ \E err \in BOOLEAN : ReleaseAllOn(m, err)
        \/ \E err \in BOOLEAN : CloseConnectionOn(m, err)
        \/ RunMicrotaskOn(m)
        \/ TickPulseOn(m)
        \/ \E c \in Conns, ok \in BOOLEAN : ConnectDoneOn(m, c, ok)

TwoSpec == Init /\ [][TwoNext]_vars
-----------------------------------------------------------------------------
(* Checks *)

RegSet == {regs[i] : i \in 1..Len(regs)}
Leased == {c \in Conns : cst[c] = "leased"}
Issued == 1..nreq
\* no connect() call is under way: none queued, connecting, or resolved
\* with connectPromise still to resume
NoAcquireInFlight ==
    \A r \in Reqs : req[r].st \notin {"waiting", "connecting", "connectingQ",
                                      "timedout", "served"}

\* C2: in every reachable state the number of live release registrations is
\* at most the number of leased clients (totalCount - idleCount), and no
\* leased client has more than one live registration.
C2_RegistrationsBoundedByLeases ==
    /\ Len(regs) <= totalCount(Cur) - idleCount(Cur)
    /\ \A c \in Leased : Cardinality({x \in RegSet : req[x].conn = c}) <= 1
\* C1: for every N within the pool size, after N successful acquires with
\* no release in between, one releaseAll() invokes the forced release of
\* each of the N leases exactly once, in one pass, ends every one of them,
\* ends no lease through another call's handle, does not raise, and leaves
\* the registration set empty.
AllAcquired ==
    /\ nreq >= 1
    /\ \A r \in Issued : req[r].st = "held" /\ req[r].active
C1_ReleaseAllEndsEachLeaseOnce ==
    [][(AllAcquired /\ last'.op = "releaseAll") =>
          /\ ~last'.threw
          /\ Len(last'.invoked) = nreq
          /\ \A r \in Issued :
                /\ Cardinality({i \in 1..nreq : last'.invoked[i] = r}) = 1
                /\ ~req'[r].active
          /\ last'.stolen = {}
          /\ regs' = <<>>]_vars
\* two clients acquired, then released by one releaseAll
C1_Witness ==
    /\ last.op = "releaseAll"
    /\ nreq = PoolMax
    /\ Len(last.invoked) = PoolMax
    /\ regs = <<>>
    /\ \A r \in Issued : req[r].st = "held" /\ ~req[r].active

\* C3: closeConnection() called while k >= 1 clients are leased and no
\* acquire is under way completes: its broadcast force-releases every
\* leased client without raising, so that the pool can end.
C3_CloseReleasesEveryLeasedClient ==
    [][(/\ last'.op = "closeConnection"
        /\ Leased # {}
        /\ NoAcquireInFlight) =>
          /\ ~last'.threw
          /\ \A c \in Leased : cst'[c] # "leased"]_vars

\* C4: a closeConnection() call made after an earlier call has completed
\* raises nothing, invokes no forced release, and leaves the pool ended.
C4_SecondCloseIsQuiet ==
    [][(/\ last'.op = "closeConnection"
        /\ close.calls >= 1
        /\ close.done = close.calls) =>
          /\ ~last'.threw
          /\ last'.invoked = <<>>
          /\ ended'
          /\ close'.ends = close.ends]_vars

\* C5: whatever the interleaving of closeConnection() calls, none of them
\* fails and Pool.end() is called at most once.
C5_CloseIsSafeToRepeat ==
    close.failed = 0 /\ close.ends <= 1

Returned(l) == IF l.threw THEN Len(l.invoked) - 1 ELSE Len(l.invoked)

C7_Original ==
    [][(last'.op = "releaseAll" /\ (regs = <<>> \/ last.op = "releaseAll")) =>
          /\ ~last'.threw
          /\ UNCHANGED <<req, nreq, cst, leaseOf, idle, pendingQueue, ticks,
                         ending, ended, regs, released, microtasks, close, hc>>]_vars

\* C7 (amended): releaseAll() on an empty registration set completes without
\* error, invokes nothing and leaves the leased and idle clients, the
\* waiting queue, the counters and the ending/ended flags unchanged; so a
\* second releaseAll() in a row changes nothing when the first one left the
\* set empty.
C7_EmptyBroadcastIsNoOp ==
    [][(last'.op = "releaseAll" /\ regs = <<>>) =>
          /\ ~last'.threw /\ last'.invoked = <<>> /\ last'.stolen = {}
          /\ UNCHANGED <<req, nreq, cst, leaseOf, idle, pendingQueue, ticks,
                         ending, ended, regs, released, microtasks, close, hc>>]_vars

\* releaseAll() has just run on an empty registration set in an ended pool
C7_Witness ==
    /\ last.op = "releaseAll" /\ last.invoked = <<>> /\ ~last.threw
    /\ regs = <<>> /\ ended /\ close.done >= 1

\* C8: a releaseAll call ends only leases that were registered when its
\* broadcast began; a connect() call served during the broadcast is still
\* leased afterwards, and registered (callback style) or about to be
\* (promise style: connectPromise resumes next).
C8_BroadcastSparesNewLeases ==
    [][last'.op = "releaseAll" =>
          /\ \A r \in Reqs : (req[r].active /\ ~req'[r].active) => r \in RegSet
          /\ \A r \in Reqs :
                (req[r].st = "waiting" /\ req'[r].st \in {"held", "served"}) =>
                    /\ req'[r].active
                    /\ req'[r].st = "held" =>
                          r \in {regs'[i] : i \in 1..Len(regs')}]_vars

\* C9: a registration never outlives its lease: every registered
\* onReleaseAll listener belongs to a connect() call whose lease is live on
\* the client object it was handed, so that no releaseAll invokes a forced
\* release for a lease that has ended.
C9_RegistrationNeverOutlivesLease ==
    \A x \in RegSet :
        /\ req[x].active
        /\ req[x].conn # 0
        /\ cst[req[x].conn] = "leased"
        /\ leaseOf[req[x].conn] = x

\* C10: a release through a handle whose lease has ended is a no-op or is
\* rejected: no release call ends the lease of another connect() call.
C10_ReleaseEndsOnlyItsOwnLease ==
    last.stolen = {}

\* C11: isConnected() returns true exactly when the pool is not ended and
\* holds at least one client object (totalCount > 0), and the call changes
\* no state: no client, lease, queue entry, registration or flag changes.
C11_IsConnectedIsPureRead ==
    [][last'.op = "isConnected" =>
          /\ last'.connected = (~ended /\ \E c \in Conns : cst[c] # "absent")
          /\ UNCHANGED <<req, nreq, cst, leaseOf, idle, pendingQueue, ticks,
                         ending, ended, regs, released, microtasks, close, hc>>]_vars

\* isConnected() has answered true while a client is leased
C11_Witness ==
    /\ last.op = "isConnected" /\ last.connected
    /\ Leased # {}

\* some connect() call has handed out its client
Acquired == \E r \in Reqs : req[r].st \in {"served", "held", "released"}

\* C12 (as stated): isConnected() is false before any acquire and after
\* closeConnection() has completed, and true in every state reached after a
\* successful acquire while the pool is not ended.
C12_Original ==
    /\ nreq = 0 => ~isConnected(Cur)
    /\ close.done >= 1 => ~isConnected(Cur)
    /\ (Acquired /\ ~ended) => isConnected(Cur)

\* C12 (amended): isConnected() is false before any connect() call and after
\* closeConnection() has completed; it is true while a client is leased; in
\* every state it is true exactly when the pool holds a client object, so
\* after a successful acquire it turns false again, the pool not ended, once
\* the last client has left the pool (errored release, idle timeout).
C12_ConnectedWhileClientsExist ==
    /\ nreq = 0 => ~isConnected(Cur)
    /\ close.done >= 1 => ~isConnected(Cur)
    /\ Leased # {} => isConnected(Cur)
    /\ isConnected(Cur) <=> (\E c \in Conns : cst[c] # "absent")

\* after a successful acquire the pool is empty again and not ended, and
\* isConnected() has answered false
C12_Witness ==
    /\ Acquired /\ ~ending /\ ~ended
    /\ \A c \in Conns : cst[c] = "absent"
    /\ last.op = "isConnected" /\ ~last.connected

\* C13: healthCheck() on an ended pool returns healthy:false with
\* details.ended true and no latency, raises nothing, starts no connect()
\* and no probe, and leaves the registration set, the clients, the queue and
\* the counters unchanged.
C13_HealthCheckOnEndedPool ==
    [][(last'.op = "healthCheck" /\ ended) =>
          /\ ~last'.threw
          /\ last'.res.returned /\ ~last'.res.healthy /\ last'.res.ended
          /\ ~last'.res.hasLatency
          /\ hc'.st = "idle"
          /\ UNCHANGED <<req, nreq, cst, leaseOf, idle, pendingQueue, ticks,
                         ending, ended, regs, released, microtasks, close, hc>>]_vars

\* healthCheck() has just returned on an ended pool that had served a client
C13_Witness ==
    /\ last.op = "healthCheck" /\ last.res.returned /\ last.res.ended
    /\ ended /\ Acquired

\* a healthCheck() call returns or raises in this step
HealthSettles ==
    \/ hc.st # "idle" /\ hc'.st = "idle"
    \/ last'.op = "healthCheck" /\ hc'.st = "idle"

\* C14: healthCheck() never raises: whatever the outcome of the connect(),
\* of the probe and of the release (a release that throws because a
\* releaseAll already released the client included), the call returns a
\* result record, healthy exactly when nothing failed.
C14_HealthCheckNeverRaises ==
    [][HealthSettles =>
          /\ ~last'.threw
          /\ last'.res.returned
          /\ last'.res.healthy <=> (last'.res.error = "none" /\ ~last'.res.ended)
          /\ last'.res.healthy => hc.st = "probing"]_vars

\* healthCheck() has returned an unhealthy result after its release threw
C14_Witness ==
    /\ last.res.returned /\ ~last.res.healthy /\ last.res.error = "release"
    /\ ~last.threw /\ hc.st = "idle"

\* C15: a healthCheck() that acquired a client ends that lease before it
\* returns (release() after a probe that succeeded, release(true) after one
\* that failed), leaves no lease and no registration of its own behind, and
\* ends no lease other than its own.
C15_HealthCheckEndsOnlyItsOwnLease ==
    [][(hc.st = "probing" /\ hc'.st = "idle") =>
          /\ ~req'[hc.r].active
          /\ \A i \in 1..Len(regs') : regs'[i] # hc.r
          /\ last'.stolen = {}
          /\ \A r \in Reqs \ {hc.r} : req[r].active => req'[r].active]_vars

\* C16: when the connect() inside healthCheck() fails (timeout while
\* waiting, connection error, pool shutting down), healthCheck returns
\* healthy:false with details.error set, releases nothing, and neither adds
\* a registration of its own nor removes one (the set can only grow by the
\* registration of another connect() call that the driver serves when the
\* failed connection attempt frees its slot).
C16_FailedAcquireIsReported ==
    [][(\/ hc.st = "acquiring" /\ hc'.st = "idle"
        \/ last'.op = "healthCheck" /\ ~ended /\ hc'.st = "idle") =>
          /\ ~last'.threw
          /\ last'.res.returned /\ ~last'.res.healthy /\ ~last'.res.ended
          /\ last'.res.error = "acquire"
          /\ Len(regs) <= Len(regs') /\ SubSeq(regs', 1, Len(regs)) = regs
          /\ \A i \in 1..Len(regs') :
                regs'[i] # (IF hc.st = "acquiring" THEN hc.r ELSE nreq')
          /\ last'.stolen = {}
          /\ \A r \in Reqs : req[r].active => req'[r].active]_vars

\* healthCheck() has returned the failure of its connect() while another
\* connect() call holds a registered client
C16_Witness ==
    /\ last.res.returned /\ last.res.error = "acquire"
    /\ hc.st = "idle" /\ regs # <<>>

\* C17: once a closeConnection() call has completed, the pool is ended, no
\* client is leased, the registration set is empty, and a healthCheck()
\* made then returns healthy:false with details.ended true.
C17_AfterCloseEverythingIsReleased ==
    close.done >= 1 =>
        /\ ended
        /\ Leased = {}
        /\ regs = <<>>
        /\ last.op = "healthCheck" =>
              (last.res.returned /\ ~last.res.healthy /\ last.res.ended)

\* C18: every healthy result of healthCheck() has latency >= 0 and
\* details.totalCount >= details.idleCount >= 0, the counters being those of
\* the pool after the probe client was released, and its timestamp is the
\* instant at which the call started.
C18_HealthyResultIsConsistent ==
    [][(HealthSettles /\ last'.res.healthy) =>
          /\ last'.res.hasLatency
          /\ last'.res.latency >= 0
          /\ last'.res.latency = now' - hc.start
          /\ last'.res.timestamp = hc.start
          /\ last'.res.totalCount >= last'.res.idleCount
          /\ last'.res.idleCount >= 0
          /\ last'.res.totalCount = Cardinality({c \in Conns : cst'[c] # "absent"})
          /\ last'.res.idleCount = Len(idle')
          /\ cst'[req[hc.r].conn] # "leased" \/ leaseOf'[req[hc.r].conn] # hc.r]_vars

\* healthCheck() has returned a healthy result with a positive latency and
\* its client back in the idle list
C18_Witness ==
    /\ last.res.returned /\ last.res.healthy
    /\ last.res.latency > 0 /\ last.res.idleCount >= 1

\* the name a lookup resolves: the one asked for, or the registry's default
Resolved(l) == IF l.asked = "omitted" THEN defaultManager ELSE l.asked

\* C19: getManager(registry, name) returns the registry's manager exactly
\* when one is registered under the name (the default name when none is
\* given) and it is a PgManager; it raises ManagerNotFound exactly when the
\* registry has nothing under the name and InvalidManagerConfig exactly when
\* what is registered is no PgManager; it never returns an absent value and
\* changes no pool state.
C19_GetManagerFailsFast ==
    [][last'.op = "getManager" =>
          LET l == last'.lookup
          IN /\ (~last'.threw /\ l.value = "PgManager") <=> Resolved(l) = "pg2"
             /\ l.error = "ManagerNotFound" <=> Resolved(l) = "nope"
             /\ l.error = "InvalidManagerConfig" <=> Resolved(l) = "other"
             /\ last'.threw <=> l.error # "none"
             /\ last'.threw => (l.about = Resolved(l) /\ l.value = "none")
             /\ ~last'.threw => l.value \notin {"none", "absent"}
             /\ UNCHANGED <<req, nreq, cst, leaseOf, idle, pendingQueue, ticks,
                            ending, ended, regs, released, microtasks, close, hc,
                            defaultManager, other>>]_vars

\* getManager(registry) without a name has raised InvalidManagerConfig for
\* the default manager while the pool holds a leased client
C19_Witness ==
    /\ last.op = "getManager" /\ last.lookup.asked = "omitted"
    /\ last.lookup.error = "InvalidManagerConfig"
    /\ last.lookup.about = "other"
    /\ Leased # {}

\* C20: getConnection(registry, name) rejects with ManagerNotFound when the
\* registry yields nothing and never resolves to an absent value; when it
\* resolves to a client of the PgManager, that client is leased to the call
\* and registered for releaseAll.
C20_GetConnectionResolvesLeasedClient ==
    [][/\ last'.op = "getConnection" =>
             LET l == last'.lookup
             IN /\ Resolved(l) = "nope" =>
                      (last'.threw /\ l.error = "ManagerNotFound" /\ l.about = "nope")
                /\ last'.threw => (l.error = "ManagerNotFound" /\ l.value = "none")
                /\ ~last'.threw => l.value \in {"pending", "connection"}
       /\ \A r \in Reqs :
             (req[r].st = "served" /\ req'[r].st = "held") =>
                 /\ req'[r].active
                 /\ req'[r].conn # 0
                 /\ cst'[req'[r].conn] = "leased"
                 /\ leaseOf'[req'[r].conn] = r
                 /\ \E i \in 1..Len(regs') : regs'[i] = r]_vars

\* C21: the manager's getConnection() is an alias for connect(): called in
\* any state it leaves the pool, the leases, the queue, the registrations
\* and the counters exactly as a promise-style connect() called in that
\* state would, with the same outcome for the caller.
C21_GetConnectionIsConnect ==
    [][last'.op = "manager.getConnection" =>
          LET s1 == connect(Cur, nreq + 1, "promise")
          IN /\ req' = Forget(s1) /\ nreq' = s1.nreq
             /\ cst' = s1.cst /\ leaseOf' = s1.leaseOf /\ idle' = s1.idle
             /\ pendingQueue' = s1.pendingQueue /\ ticks' = s1.ticks
             /\ ending' = s1.ending /\ ended' = s1.ended
             /\ regs' = s1.regs /\ microtasks' = s1.microtasks
             /\ close' = s1.close /\ hc' = s1.hc
             /\ last' = [Last("connect", s1) EXCEPT
                            !.op = "manager.getConnection"]]_vars

\* getConnection() has been called on a pool that is shutting down and has
\* failed, another call's client still leased
C21_Witness ==
    /\ last.op = "manager.getConnection"
    /\ req[nreq].st = "failed"
    /\ ending /\ Leased # {}

ReleasedInStep == {req[r].conn : r \in {x \in Reqs : req[x].active /\ ~req'[x].active}}
\* the client objects the step created (the driver opening a connection)
OpenedInStep == {c \in Conns : cst[c] # "connecting" /\ cst'[c] = "connecting"}

\* how many times the pool emitted event e during the step whose log is l
Occurrences(l, e) == Cardinality({i \in 1..Len(l) : l[i] = e})

\* C24 (as stated): releaseAll(err) passes err to every forced release: with
\* a truthy err every connection the broadcast released is discarded (none
\* becomes idle, totalCount drops by their number), with a falsy err every
\* one of them is in the idle set afterwards.
C24_Original ==
    [][last'.op = "releaseAll" =>
          IF last'.err
          THEN /\ \A c \in ReleasedInStep : cst'[c] \in {"absent", "connecting"}
               /\ Cardinality({c \in Conns : cst'[c] # "absent"})
                     = totalCount(Cur) - Cardinality(ReleasedInStep)
          ELSE \A c \in ReleasedInStep : cst'[c] = "idle"]_vars

\* C24 (amended): releaseAll(err) passes err to every forced release.  With
\* a truthy err every connection the broadcast releases is removed from the
\* pool (one 'remove' per 'release') and no connection becomes idle;
\* totalCount drops by their number, less the connections the driver opens
\* at once for connect() calls that were waiting.  With a falsy err every one
\* of them goes back to the pool: it is idle afterwards, or leased to a
\* connect() call that was waiting, or, when the pool is shutting down,
\* removed; on a pool that is not shutting down none is removed.
C24_BroadcastPassesErr ==
    [][last'.op = "releaseAll" =>
          IF last'.err
          THEN /\ \A c \in ReleasedInStep : cst'[c] \in {"absent", "connecting"}
               /\ \A i \in 1..Len(idle') : \E j \in 1..Len(idle) : idle'[i] = idle[j]
               /\ Occurrences(last'.log, "remove") = Occurrences(last'.log, "release")
               /\ Cardinality({c \in Conns : cst'[c] # "absent"})
                     = totalCount(Cur) - Occurrences(last'.log, "release")
                       + Cardinality(OpenedInStep)
               /\ \A c \in OpenedInStep : req[leaseOf'[c]].st = "waiting"
          ELSE /\ \A c \in ReleasedInStep :
                     IF ending THEN cst'[c] = "absent"
                     ELSE \/ cst'[c] = "idle"
                          \/ cst'[c] = "leased" /\ req[leaseOf'[c]].st = "waiting"
               /\ Occurrences(last'.log, "remove")
                     = IF ending THEN Occurrences(last'.log, "release") ELSE 0]_vars

\* releaseAll(true) has just discarded a leased client and the driver has
\* opened a connection for a connect() call that was waiting
C24_Witness ==
    /\ last.op = "releaseAll" /\ last.err /\ ~last.threw
    /\ Len(last.invoked) >= 1
    /\ \E i \in 1..Len(last.log) : last.log[i] = "remove"
    /\ \E r \in Reqs : req[r].st = "connectingQ"

\* connect() call r has not returned to its caller yet
Suspended(r) == req[r].st \in {"waiting", "connecting", "connectingQ", "served"}
\* connect() call r has returned a client or an error to its caller
Finished(r) == req[r].st \in {"held", "released", "failed", "timedout"}

\* C25: with connectionTimeoutMillis configured every connect() call
\* eventually finishes, with a leased client or with an error; none stays
\* suspended forever, also when the holders of all clients never release.
C25_EveryAcquireFinishes ==
    \A r \in Reqs : Suspended(r) ~> Finished(r)

\* the third connect() call has failed on its timeout while the first two
\* hold both clients
C25_Witness ==
    /\ nreq = MaxReq /\ ~ending
    /\ req[1].st = "held" /\ req[1].active
    /\ req[2].st = "held" /\ req[2].active
    /\ req[3].st = "failed"

\* the forced releases a step invoked are the first registrations, in the
\* order of the registration list
InvokedInListOrder ==
    /\ Len(last'.invoked) <= Len(regs)
    /\ \A i \in 1..Len(last'.invoked) : last'.invoked[i] = regs[i]
\* the registration list is in registration order: a step keeps the order
\* of the registrations that stay and puts new ones after them
ListInRegistrationOrder ==
    LET after == {regs'[i] : i \in 1..Len(regs')}
        kept == SelectSeq(regs, LAMBDA x : x \in after)
    IN /\ Len(kept) <= Len(regs')
       /\ SubSeq(regs', 1, Len(kept)) = kept
       /\ \A i \in (Len(kept) + 1)..Len(regs') : regs'[i] \notin RegSet
\* connect() call y is handed a client and registered in a step in which
\* call x, handed its client earlier, is still not registered
Overtakes(y, x) ==
    /\ req[x].st = "served" /\ req'[x].st = "served"
    /\ req[y].st \in {"waiting", "connecting", "connectingQ"}
    /\ req'[y].st = "held"

\* C26 (as stated): releaseAll invokes the forced releases in the order in
\* which the leases were registered, which is the order in which they were
\* acquired, also when earlier leases were released before the broadcast.
C26_Original ==
    [][/\ last'.op = "releaseAll" => InvokedInListOrder
       /\ ListInRegistrationOrder
       /\ \A x, y \in Reqs : ~Overtakes(y, x)]_vars

\* C26 (amended): releaseAll invokes the forced releases in the order in
\* which the leases were registered, also when earlier leases were released
\* before the broadcast.  Registration order is acquisition order except
\* that a callback-style connect() served while a promise-style connect()
\* has its client but has not resumed yet registers before it.
C26_BroadcastInRegistrationOrder ==
    [][/\ last'.op = "releaseAll" => InvokedInListOrder
       /\ ListInRegistrationOrder
       /\ \A x, y \in Reqs :
             Overtakes(y, x) => (req[y].style = "callback"
                                 /\ req[x].style \in {"promise", "health"})]_vars

\* a releaseAll has invoked two forced releases, the later-issued call's
\* first: that call registered before the earlier one
C26_Witness ==
    /\ last.op = "releaseAll"
    /\ Len(last.invoked) = 2
    /\ last.invoked[1] > last.invoked[2]

\* C27: releaseAll never fails and returns only after every listener
\* registered at the start of the call has been invoked: when one forced
\* release raises, the remaining ones are still invoked and the call
\* resolves.
C27_BroadcastSurvivesRaisingRelease ==
    [][last'.op = "releaseAll" =>
          (~last'.threw /\ last'.invoked = regs)]_vars

\* C28: healthCheck() returns healthy:true exactly when the pool is not
\* ended, its connect() succeeded and its probe query succeeded, also when
\* a releaseAll ran while the probe was in flight and force-released the
\* probe's client.
C28_HealthyExactlyWhenProbeSucceeds ==
    [][HealthSettles =>
          (last'.res.healthy <=>
              (~ended /\ hc.st = "probing" /\ last'.probeOk))]_vars

\* the errors delivered to the caller of connect() call r in the last step
FailuresOf(l, r) == {i \in 1..Len(l.failures) : l.failures[i].r = r}

\* C29: a connect() call that fails (timeout in the queue, connection
\* error, pool shutting down), in either style, adds no registration and
\* leaves no client leased to it; its caller gets the driver's error, as the
\* driver raised it, exactly once; a call that has failed is never
\* registered or leased later.
C29_FailedAcquireLeavesNothing ==
    [][/\ \A r \in Reqs :
             (~Finished(r) /\ req'[r].st \in {"failed", "timedout"}) =>
                 /\ Cardinality(FailuresOf(last', r)) = 1
                 /\ \A i \in FailuresOf(last', r) :
                       last'.failures[i].got = last'.failures[i].raised
       /\ \A i \in 1..Len(last'.failures) : ~Finished(last'.failures[i].r)
       /\ \A r \in Reqs :
             req'[r].st \in {"failed", "timedout"} =>
                 /\ ~req'[r].active
                 /\ \A i \in 1..Len(regs') : regs'[i] # r
                 /\ \A c \in Conns : cst'[c] = "leased" => leaseOf'[c] # r]_vars

\* a connect() call has just failed on its timeout in the queue while both
\* clients are leased and registered
C29_Witness ==
    /\ Len(last.failures) = 1
    /\ last.failures[1].raised = "timeout" /\ last.failures[1].got = "timeout"
    /\ Cardinality(Leased) = PoolMax /\ Len(regs) = PoolMax
    /\ \E r \in Reqs : req[r].st = "failed" /\ last.failures[1].r = r

\* C30: the 'released' listeners the wrapper has added to a client object
\* do not accumulate: however often the client is leased and released, it
\* carries at most one listener (a client has at most one active lease).
C30_ReleasedListenersDoNotAccumulate ==
    \A c \in Conns : released[c] <= 1

\* C31: whenever a releaseAll broadcast runs (releaseAll, or the one
\* closeConnection makes), every client the pool has handed out through
\* promise-style connect() is registered already: no broadcast starts while
\* a promise-style connect() call holds a lease and its onReleaseAll
\* listener is still to be added.
C31_BroadcastFindsEveryLeaseRegistered ==
    [][last'.op \in {"releaseAll", "closeConnection"} =>
          \A r \in Reqs :
              (req[r].style = "promise" /\ req[r].active) => r \in RegSet]_vars

\* a lease of client c begins in the step: c is leased afterwards, to a
\* connect() call that did not hold it before
LeaseBegins(c) ==
    /\ cst'[c] = "leased"
    /\ cst[c] # "leased" \/ leaseOf'[c] # leaseOf[c]

\* C32: once closeConnection() has been called no new lease begins, neither
\* in the call itself (a connect() call that was waiting is not served by a
\* client its broadcast released) nor later.
C32_NoLeaseBeginsAfterClose ==
    [][close.calls' >= 1 => \A c \in Conns : ~LeaseBegins(c)]_vars

\* C33 (as stated): from the moment closeConnection() has initiated the end
\* of the pool (the pool is shutting down and not ended yet, a lease being
\* outstanding), healthCheck() reports healthy:false with details.ended
\* true and makes no connect() call.
C33_Original ==
    [][(last'.op = "healthCheck" /\ ending /\ ~ended) =>
          /\ last'.res.returned
          /\ ~last'.res.healthy
          /\ last'.res.ended
          /\ nreq' = nreq]_vars

\* C33 (amended): while the pool is shutting down and not ended yet,
\* healthCheck() makes its connect() call, which the driver rejects at once;
\* it returns in the same turn healthy:false with the error and the pool
\* counters and without details.ended; no client is leased to it, no
\* registration is added and the pool is left as it was.
C33_HealthCheckWhileShuttingDown ==
    [][(last'.op = "healthCheck" /\ ending /\ ~ended) =>
          /\ last'.res.returned
          /\ ~last'.res.healthy
          /\ ~last'.res.ended
          /\ last'.res.error = "acquire"
          /\ last'.res.totalCount = totalCount(Cur)
          /\ last'.res.idleCount = idleCount(Cur)
          /\ nreq' = nreq + 1
          /\ req'[nreq'].st = "failed" /\ ~req'[nreq'].active
          /\ hc' = hc
          /\ UNCHANGED <<cst, leaseOf, idle, pendingQueue, ticks, ending,
                         ended, regs, released, microtasks, close>>]_vars

\* healthCheck() has just returned its unhealthy result on a pool that is
\* shutting down while a client is still leased
C33_Witness ==
    /\ last.op = "healthCheck"
    /\ last.res.returned /\ last.res.error = "acquire"
    /\ ending /\ ~ended
    /\ Leased # {}

\* C34: the ended state is absorbing: once the pool is ended no step leases
\* a client, adds a registration, brings a client object into the pool or
\* clears the ended flag, whatever is called (connect, getConnection,
\* releaseAll, closeConnection, healthCheck, isConnected).
C34_EndedIsAbsorbing ==
    [][ended =>
          /\ ended'
          /\ \A c \in Conns : cst'[c] = "absent"
          /\ \A i \in 1..Len(regs') : regs'[i] \in RegSet]_vars

\* the connect() calls registered on pool s
RegSetOf(s) == {s.regs[i] : i \in 1..Len(s.regs)}

\* the pool of manager m is left as it was by the step
PoolUnchanged(m) ==
    IF m = 1
    THEN UNCHANGED <<req, nreq, cst, leaseOf, idle, pendingQueue, ticks,
                     ending, ended, regs, released, microtasks, close, hc, now>>
    ELSE other' = other

\* C35: managers are isolated from each other: releaseAll or closeConnection
\* on one manager (the end() closeConnection goes on to included) releases no
\* client leased from another manager and leaves the other manager's
\* registration set, clients, counters and ended flag unchanged.
C35_ManagersAreIsolated ==
    [][last'.op \in {"releaseAll", "closeConnection", "closeConnection.end"} =>
          \A k \in Managers : k # last'.mgr => PoolUnchanged(k)]_vars

\* releaseAll() on manager 1 has just force-released a client while manager
\* 2 holds a leased, registered client of its own
C35_Witness ==
    /\ last.op = "releaseAll" /\ last.mgr = 1 /\ ~last.threw
    /\ Len(last.invoked) >= 1
    /\ other.regs # <<>>
    /\ \E c \in Conns : other.cst[c] = "leased" /\ other.leaseOf[c] \in RegSetOf(other)

=============================================================================
